---- MODULE Spec2Model ----
(***************************************************************************)
(* Pension Modeler (streamlit_app.py).                                     *)
(*                                                                         *)
(* The script is re-executed from top to bottom each time a sidebar widget *)
(* or the scenario multiselect changes.  The state is the widget values    *)
(* and everything the last run of the script computed from them.  Every    *)
(* action is one widget edit followed by the complete run of the script.   *)
(*                                                                         *)
(* Python floats are modelled as exact rationals [n, d] in lowest terms    *)
(* (IEEE rounding of the individual operations is not modelled).  The      *)
(* integer width of the checker limits the window of form values that is   *)
(* explored: growth of 0 % or 10 % over at most MaxYears years.  The first *)
(* state is the first run of the script on a form inside that window.      *)
(***************************************************************************)
EXTENDS Integers, Sequences, FiniteSets, TLC

VARIABLES
    current_year,            \* today.year
    current_age, current_salary, salary_growth_pct, current_service,
    target_mode, retirement_age, retirement_year, years_to_retirement,
    annual_service_accrual, max_service_cap, valuation_factor,
    sft_now, sft_growth_pct,
    final_salary, service_at_retirement, annual_pension, lump_sum,
    sft_value, sft_threshold_future,
    issues,                  \* the warnings collected by the checks
    status,                  \* the threshold message of the summary
    ages,                    \* the multiselect's selection, in selection order
    calc,                    \* the loop's local values, one record per iteration
    rows,                    \* the list of row dicts built by the loop
    df,                      \* the sorted DataFrame (as the sequence of its rows)
    csv,                     \* the exported table
    exc                      \* the exception that ended the run, if any

vars == <<current_year, current_age, current_salary, salary_growth_pct,
          current_service, target_mode, retirement_age, retirement_year,
          years_to_retirement, annual_service_accrual, max_service_cap,
          valuation_factor, sft_now, sft_growth_pct, final_salary,
          service_at_retirement, annual_pension, lump_sum, sft_value,
          sft_threshold_future, issues, status, ages, calc, rows, df, csv, exc>>

-----------------------------------------------------------------------------
(* Bounds of the explored window *)

MaxYears == 3        \* largest number of years to retirement

-----------------------------------------------------------------------------
(* Widget ranges and defaults *)

MinCurrentAge == 20
MaxCurrentAge == 75
MaxCurrentSalary == 5000000
MaxGrowthPct == 10
MaxCurrentService == 45
MinRetirementAge == 55
MaxRetirementAge == 75
DefaultRetirementAge == 65
RetirementYearSpan == 40
DefaultRetirementYear == 2033
MaxAccrual == 2
MinCap == 20
MaxCap == 50
MinValuationFactor == 10
MaxValuationFactor == 50
MinSft == 500000
MaxSft == 10000000
PensionDivisor == 80
LumpSumDivisor == 30
EpsDenominator == 1000000000

-----------------------------------------------------------------------------
(* Float arithmetic, as exact rationals in lowest terms with d > 0 *)

Abs(i) == IF i < 0 THEN -i ELSE i

RECURSIVE Gcd(_, _)
Gcd(a, b) == IF b = 0 THEN a ELSE Gcd(b, a % b)

\* n/d reduced by the common divisor g
Reduce(n, d, g) == [n |-> n \div g, d |-> d \div g]

Rat(n, d) == Reduce(n, d, Gcd(Abs(n), d))

ToRat(i) == [n |-> i, d |-> 1]

Zero == ToRat(0)
One == ToRat(1)

RNeg(x) == [n |-> -x.n, d |-> x.d]

\* x + y over the least common denominator; g is the gcd of the denominators
AddOver(x, y, g) == Rat(x.n * (y.d \div g) + y.n * (x.d \div g), (x.d \div g) * y.d)

RAdd(x, y) == AddOver(x, y, Gcd(x.d, y.d))

RSub(x, y) == RAdd(x, RNeg(y))

\* x * y with the cross factors g1 = gcd(x.n, y.d), g2 = gcd(y.n, x.d) cancelled
MulOver(x, y, g1, g2) ==
    [n |-> (x.n \div g1) * (y.n \div g2), d |-> (x.d \div g2) * (y.d \div g1)]

RMul(x, y) == MulOver(x, y, Gcd(Abs(x.n), y.d), Gcd(Abs(y.n), x.d))

RInv(x) == IF x.n < 0 THEN [n |-> -x.d, d |-> -x.n] ELSE [n |-> x.d, d |-> x.n]

RDiv(x, y) == RMul(x, RInv(y))

RAbs(x) == [n |-> Abs(x.n), d |-> x.d]

\* x < y, by comparing integer parts and then the reciprocals of the remainders
RECURSIVE RLess(_, _)
RLess(x, y) ==
    LET qx == x.n \div x.d
        qy == y.n \div y.d
        rx == x.n % x.d
        ry == y.n % y.d
    IN  IF qx # qy THEN qx < qy
        ELSE IF ry = 0 THEN FALSE
        ELSE IF rx = 0 THEN TRUE
        ELSE RLess([n |-> y.d, d |-> ry], [n |-> x.d, d |-> rx])

RLeq(x, y) == ~RLess(y, x)

\* x ** k for an integer k
RECURSIVE RPow(_, _)
RPow(x, k) ==
    IF k = 0 THEN One
    ELSE IF k < 0 THEN RInv(RPow(x, -k))
    ELSE RMul(x, RPow(x, k - 1))

\* a >= b where the code has a > b
RGe(a, b) == ~RLess(a, b)

\* a > b on floats
RGt(a, b) == RLess(b, a)

\* min(a, b) and max(a, b) of Python: the first argument wins a tie
PyMin(a, b) == IF RLess(b, a) THEN b ELSE a

\* the difference used without the clamp at 0
PyMaxUnclamped(a, b) == b

PyMax(a, b) == IF b > a THEN b ELSE a

RECURSIVE Pow10(_)
Pow10(k) == IF k = 0 THEN 1 ELSE 10 * Pow10(k - 1)

\* round(x, ndigits): to the nearest multiple of 10^-ndigits, ties to even
\* the integer nearest to q + r/d (0 <= r < d), ties to even
Nearest(q, r, d) ==
    IF 2 * r > d \/ (2 * r = d /\ q % 2 = 1) THEN q + 1 ELSE q

\* y = x * s rounded to an integer, over s
RoundScaled(y, s) == Rat(Nearest(y.n \div y.d, y.n % y.d, y.d), s)

Round(x, ndigits) == RoundScaled(RMul(x, ToRat(Pow10(ndigits))), Pow10(ndigits))

Eps == [n |-> 1, d |-> EpsDenominator]

-----------------------------------------------------------------------------
(* Functions *)

\* the growth rate subtracted instead of added
project_final_salary_decline(salary_now, growth_pct, years) ==
    RMul(ToRat(salary_now), RPow(RSub(One, RDiv(growth_pct, ToRat(100))), years))

project_final_salary(salary_now, growth_pct, years) ==
    RMul(ToRat(salary_now), RPow(RAdd(One, RDiv(growth_pct, ToRat(100))), years))

\* the cap applied to growth only: service already above the cap is kept
project_service_keep(service_now, accrual_per_year, years, cap) ==
    IF RLess(cap, service_now)
    THEN service_now
    ELSE PyMin(RAdd(service_now, RMul(accrual_per_year, ToRat(years))), cap)

\* the accrual without the cap
project_service_nocap(service_now, accrual_per_year, years, cap) ==
    RAdd(service_now, RMul(accrual_per_year, ToRat(years)))

project_service(service_now, accrual_per_year, years, cap) ==
    PyMin(RAdd(service_now, RMul(accrual_per_year, ToRat(years))), cap)

sft_at_year(sft, growth_pct, years) ==
    RMul(ToRat(sft), RPow(RAdd(One, RDiv(growth_pct, ToRat(100))), years))

\* the annual pension reduced by the lump sum
classic_db_pension_net(fs, service_years) ==
    <<RSub(RMul(fs, RDiv(service_years, ToRat(PensionDivisor))),
           RMul(fs, RDiv(service_years, ToRat(LumpSumDivisor)))),
      RMul(fs, RDiv(service_years, ToRat(LumpSumDivisor)))>>

classic_db_pension(fs, service_years) ==
    <<RMul(fs, RDiv(service_years, ToRat(PensionDivisor))),
      RMul(fs, RDiv(service_years, ToRat(LumpSumDivisor)))>>

-----------------------------------------------------------------------------
(* Checks and summary *)

MsgThisYear == "Retirement is this year (years to retirement = 0)."
MsgHitCap == "Service hit the cap. Consider raising the cap or revising accrual."
MsgAgeLess == "Retirement age is less than current age."
MsgOver == "Over the SFT threshold based on current assumptions."
MsgWithin == "Within SFT threshold under current assumptions."

\* the age check with <= for <
ChecksLeq(yrs, svc, cap, ra, ca) ==
    (IF yrs = 0 THEN <<MsgThisYear>> ELSE <<>>)
    \o (IF RLess(RAbs(RSub(svc, cap)), Eps) THEN <<MsgHitCap>> ELSE <<>>)
    \o (IF ra <= ca THEN <<MsgAgeLess>> ELSE <<>>)

Checks(yrs, svc, cap, ra, ca) ==
    (IF yrs = 0 THEN <<MsgThisYear>> ELSE <<>>)
    \o (IF RLess(RAbs(RSub(svc, cap)), Eps) THEN <<MsgHitCap>> ELSE <<>>)
    \o (IF ra < ca THEN <<MsgAgeLess>> ELSE <<>>)

ThresholdStatus(val, thr) == IF RGt(val, thr) THEN MsgOver ELSE MsgWithin

-----------------------------------------------------------------------------
(* Scenarios *)

\* the record of one iteration's local values
SweepValues(age, yrs, ry, fs, svc, pen, ls, sft_val, sft_thr) ==
    [age |-> age, yrs |-> yrs, ry |-> ry, fs |-> fs, svc |-> svc, pen |-> pen,
     ls |-> ls, sft_val |-> sft_val, sft_thr |-> sft_thr, over |-> RGt(sft_val, sft_thr)]

\* pen, ls = classic_db_pension(fs, svc); sft_val = pen * valuation_factor + ls
SweepPension(age, yrs, ry, fs, svc, pl, vf, sft_thr) ==
    SweepValues(age, yrs, ry, fs, svc, pl[1], pl[2], RAdd(RMul(pl[1], vf), pl[2]), sft_thr)

\* the loop with the SFT growth rate passed to the salary projection
SweepYearSwapped(age, yrs, w) ==
    SweepPension(age, yrs, w.current_year + yrs,
                 project_final_salary(w.current_salary, w.sft_growth_pct, yrs),
                 project_service(w.current_service, w.annual_service_accrual, yrs,
                                 w.max_service_cap),
                 classic_db_pension(
                     project_final_salary(w.current_salary, w.sft_growth_pct, yrs),
                     project_service(w.current_service, w.annual_service_accrual, yrs,
                                     w.max_service_cap)),
                 w.valuation_factor,
                 sft_at_year(w.sft_now, w.sft_growth_pct, yrs))

\* ry, fs, svc, pen, ls, sft_val and sft_thr of the iteration for yrs years
SweepYear(age, yrs, w) ==
    SweepPension(age, yrs, w.current_year + yrs,
                 project_final_salary(w.current_salary, w.salary_growth_pct, yrs),
                 project_service(w.current_service, w.annual_service_accrual, yrs,
                                 w.max_service_cap),
                 classic_db_pension(
                     project_final_salary(w.current_salary, w.salary_growth_pct, yrs),
                     project_service(w.current_service, w.annual_service_accrual, yrs,
                                     w.max_service_cap)),
                 w.valuation_factor,
                 sft_at_year(w.sft_now, w.sft_growth_pct, yrs))

\* the values of one iteration of the loop over ages, on the widget values w
SweepLocals(age, w) == SweepYear(age, PyMax(0, age - w.current_age), w)

Columns == <<"Ret Age", "Ret Year", "Years to Ret", "Service (yrs)",
             "Final Salary (€)", "Annual Pension (€)", "Lump Sum (€)",
             "SFT Value (€)", "SFT Threshold (€)", "Over SFT?">>

\* the dict appended to rows
RowDict(c) ==
    ("Ret Age" :> c.age) @@ ("Ret Year" :> c.ry) @@ ("Years to Ret" :> c.yrs)
    @@ ("Service (yrs)" :> Round(c.svc, 2))
    @@ ("Final Salary (€)" :> Round(c.fs, 0))
    @@ ("Annual Pension (€)" :> Round(c.pen, 0))
    @@ ("Lump Sum (€)" :> Round(c.ls, 0))
    @@ ("SFT Value (€)" :> Round(c.sft_val, 0))
    @@ ("SFT Threshold (€)" :> Round(c.sft_thr, 0))
    @@ ("Over SFT?" :> IF c.over THEN "Yes" ELSE "No")

\* pd.DataFrame(rows): the columns are the keys of the dicts; none for no dicts
DataFrameColumns(rs) == IF rs = <<>> THEN {} ELSE DOMAIN rs[1]

RECURSIVE InsertByAge(_, _)
InsertByAge(r, s) ==
    IF s = <<>> THEN <<r>>
    ELSE IF r["Ret Age"] < s[1]["Ret Age"] THEN <<r>> \o s
    ELSE <<s[1]>> \o InsertByAge(r, Tail(s))

\* sort_values(["Ret Age"]) on the rows of the frame
RECURSIVE SortValues(_)
SortValues(rs) ==
    IF rs = <<>> THEN <<>>
    ELSE InsertByAge(rs[1], SortValues(Tail(rs)))

NoCsv == "unset"

\* to_csv(index=False): the header line and one line per row
ToCsv(frame) ==
    <<Columns>> \o [i \in 1..Len(frame) |-> [j \in 1..Len(Columns) |-> frame[i][Columns[j]]]]

-----------------------------------------------------------------------------
(* One run of the script on the widget values *)

\* the value of the widget that sets the retirement target
Target == IF target_mode = "Age" THEN retirement_age ELSE retirement_year

\* the widget values of the current state
Widgets ==
    [current_year |-> current_year, current_age |-> current_age,
     current_salary |-> current_salary, salary_growth_pct |-> salary_growth_pct,
     current_service |-> current_service, target_mode |-> target_mode,
     target |-> Target, annual_service_accrual |-> annual_service_accrual,
     max_service_cap |-> max_service_cap, valuation_factor |-> valuation_factor,
     sft_now |-> sft_now, sft_growth_pct |-> sft_growth_pct, ages |-> ages]

YearsToRetirement(w) ==
    IF w.target_mode = "Age"
    THEN PyMax(0, w.target - w.current_age)
    ELSE PyMax(0, w.target - w.current_year)

\* annual_pension, lump_sum and sft_value from the projections
Valuation(fs, svc, pl, vf, thr) ==
    [final_salary |-> fs, service_at_retirement |-> svc, annual_pension |-> pl[1],
     lump_sum |-> pl[2], sft_value |-> RAdd(RMul(pl[1], vf), pl[2]),
     sft_threshold_future |-> thr]

Calculations(w, yrs) ==
    Valuation(project_final_salary(w.current_salary, w.salary_growth_pct, yrs),
              project_service(w.current_service, w.annual_service_accrual, yrs,
                              w.max_service_cap),
              classic_db_pension(
                  project_final_salary(w.current_salary, w.salary_growth_pct, yrs),
                  project_service(w.current_service, w.annual_service_accrual, yrs,
                                  w.max_service_cap)),
              w.valuation_factor,
              sft_at_year(w.sft_now, w.sft_growth_pct, yrs))

\* pd.DataFrame(rows).sort_values(["Ret Age"]): KeyError without that column
SortedFrame(rs) ==
    IF "Ret Age" \notin DataFrameColumns(rs)
    THEN [exc |-> "KeyError", df |-> <<>>]
    ELSE [exc |-> "none", df |-> SortValues(rs)]

\* the state at the end of the run: yrs, ra and ry are the retirement target,
\* c the calculations, cl the loop's locals, rs the rows, sorted the frame
Outcome(w, yrs, ra, ry, c, cl, rs, sorted) ==
    [current_year |-> w.current_year, current_age |-> w.current_age,
     current_salary |-> w.current_salary, salary_growth_pct |-> w.salary_growth_pct,
     current_service |-> w.current_service, target_mode |-> w.target_mode,
     retirement_age |-> ra, retirement_year |-> ry, years_to_retirement |-> yrs,
     annual_service_accrual |-> w.annual_service_accrual,
     max_service_cap |-> w.max_service_cap, valuation_factor |-> w.valuation_factor,
     sft_now |-> w.sft_now, sft_growth_pct |-> w.sft_growth_pct,
     final_salary |-> c.final_salary,
     service_at_retirement |-> c.service_at_retirement,
     annual_pension |-> c.annual_pension, lump_sum |-> c.lump_sum,
     sft_value |-> c.sft_value, sft_threshold_future |-> c.sft_threshold_future,
     issues |-> Checks(yrs, c.service_at_retirement, w.max_service_cap, ra, w.current_age),
     status |-> ThresholdStatus(c.sft_value, c.sft_threshold_future),
     ages |-> w.ages, calc |-> cl, rows |-> rs,
     exc |-> sorted.exc, df |-> sorted.df,
     csv |-> IF sorted.exc = "none" THEN ToCsv(sorted.df) ELSE NoCsv]

\* the scenario tab: the loop over ages, the rows, the sorted frame
Scenarios(w, yrs, ra, ry, c, cl) ==
    Outcome(w, yrs, ra, ry, c, cl, [i \in DOMAIN cl |-> RowDict(cl[i])],
            SortedFrame([i \in DOMAIN cl |-> RowDict(cl[i])]))

\* the sidebar target, the calculations and the scenario loop for yrs years
Summary(w, yrs) ==
    Scenarios(w, yrs,
              IF w.target_mode = "Age" THEN w.target ELSE w.current_age + yrs,
              IF w.target_mode = "Age" THEN w.current_year + yrs ELSE w.target,
              Calculations(w, yrs),
              [i \in DOMAIN w.ages |-> SweepLocals(w.ages[i], w)])

\* everything the script computes, top to bottom, from the widget values w
Script(w) == Summary(w, YearsToRetirement(w))

Run(w) ==
    \E s \in {Script(w)} :
        /\ current_year' = s.current_year
        /\ current_age' = s.current_age
        /\ current_salary' = s.current_salary
        /\ salary_growth_pct' = s.salary_growth_pct
        /\ current_service' = s.current_service
        /\ target_mode' = s.target_mode
        /\ retirement_age' = s.retirement_age
        /\ retirement_year' = s.retirement_year
        /\ years_to_retirement' = s.years_to_retirement
        /\ annual_service_accrual' = s.annual_service_accrual
        /\ max_service_cap' = s.max_service_cap
        /\ valuation_factor' = s.valuation_factor
        /\ sft_now' = s.sft_now
        /\ sft_growth_pct' = s.sft_growth_pct
        /\ final_salary' = s.final_salary
        /\ service_at_retirement' = s.service_at_retirement
        /\ annual_pension' = s.annual_pension
        /\ lump_sum' = s.lump_sum
        /\ sft_value' = s.sft_value
        /\ sft_threshold_future' = s.sft_threshold_future
        /\ issues' = s.issues
        /\ status' = s.status
        /\ ages' = s.ages
        /\ calc' = s.calc
        /\ rows' = s.rows
        /\ df' = s.df
        /\ csv' = s.csv
        /\ exc' = s.exc

-----------------------------------------------------------------------------
(* The window of widget values that is explored *)

CurrentYears == {DefaultRetirementYear - 2}
CurrentAges == {DefaultRetirementAge + 1 - MaxYears, DefaultRetirementAge + 2}
Salaries == {0, 100000}
GrowthPcts == {Zero, ToRat(MaxGrowthPct)}
Services == {Zero, ToRat(20), ToRat(MaxCurrentService)}
RetirementAges == {DefaultRetirementAge, DefaultRetirementAge + 1}
RetirementYears == {current_year, DefaultRetirementYear}
Accruals == {Zero, One}
Caps == {ToRat(MinCap), ToRat(30)}
ValuationFactors == {ToRat(MinValuationFactor), ToRat(20)}
Sfts == {850000, 2000000}
AgeOptions == {DefaultRetirementAge, DefaultRetirementAge + 1}

Range(s) == {s[i] : i \in DOMAIN s}

-----------------------------------------------------------------------------
(* The first run of the script, on a form inside the window *)

Init ==
    \E cy \in CurrentYears :
        \E s \in {Script([current_year |-> cy,
                          current_age |-> DefaultRetirementAge + 1 - MaxYears,
                          current_salary |-> 100000, salary_growth_pct |-> Zero,
                          current_service |-> ToRat(20), target_mode |-> "Age",
                          target |-> DefaultRetirementAge,
                          annual_service_accrual |-> One,
                          max_service_cap |-> ToRat(30),
                          valuation_factor |-> ToRat(20), sft_now |-> 2000000,
                          sft_growth_pct |-> Zero,
                          ages |-> <<DefaultRetirementAge, DefaultRetirementAge + 1>>])} :
            /\ current_year = s.current_year
            /\ current_age = s.current_age
            /\ current_salary = s.current_salary
            /\ salary_growth_pct = s.salary_growth_pct
            /\ current_service = s.current_service
            /\ target_mode = s.target_mode
            /\ retirement_age = s.retirement_age
            /\ retirement_year = s.retirement_year
            /\ years_to_retirement = s.years_to_retirement
            /\ annual_service_accrual = s.annual_service_accrual
            /\ max_service_cap = s.max_service_cap
            /\ valuation_factor = s.valuation_factor
            /\ sft_now = s.sft_now
            /\ sft_growth_pct = s.sft_growth_pct
            /\ final_salary = s.final_salary
            /\ service_at_retirement = s.service_at_retirement
            /\ annual_pension = s.annual_pension
            /\ lump_sum = s.lump_sum
            /\ sft_value = s.sft_value
            /\ sft_threshold_future = s.sft_threshold_future
            /\ issues = s.issues
            /\ status = s.status
            /\ ages = s.ages
            /\ calc = s.calc
            /\ rows = s.rows
            /\ df = s.df
            /\ csv = s.csv
            /\ exc = s.exc

-----------------------------------------------------------------------------
(* Widget edits; each one re-runs the script *)

SetCurrentAge ==
    \E v \in CurrentAges :
        /\ v # current_age
        /\ v \in MinCurrentAge..MaxCurrentAge
        /\ Run([Widgets EXCEPT !.current_age = v])

SetCurrentSalary ==
    \E v \in Salaries :
        /\ v # current_salary
        /\ v \in 0..MaxCurrentSalary
        /\ Run([Widgets EXCEPT !.current_salary = v])

SetSalaryGrowth ==
    \E v \in GrowthPcts :
        /\ v # salary_growth_pct
        /\ RLeq(Zero, v) /\ RLeq(v, ToRat(MaxGrowthPct))
        /\ Run([Widgets EXCEPT !.salary_growth_pct = v])

SetCurrentService ==
    \E v \in Services :
        /\ v # current_service
        /\ RLeq(Zero, v) /\ RLeq(v, ToRat(MaxCurrentService))
        /\ Run([Widgets EXCEPT !.current_service = v])

\* the radio button; the target widget of the new mode starts at its default
SetTargetMode ==
    \E m \in {"Age", "Year"} :
        /\ m # target_mode
        /\ m = "Year" =>
            DefaultRetirementYear \in current_year..(current_year + RetirementYearSpan)
        /\ Run([Widgets EXCEPT !.target_mode = m,
                               !.target = IF m = "Age" THEN DefaultRetirementAge
                                          ELSE DefaultRetirementYear])

SetRetirementAge ==
    \E v \in RetirementAges :
        /\ target_mode = "Age"
        /\ v # retirement_age
        /\ v \in MinRetirementAge..MaxRetirementAge
        /\ Run([Widgets EXCEPT !.target = v])

SetRetirementYear ==
    \E v \in RetirementYears :
        /\ target_mode = "Year"
        /\ v # retirement_year
        /\ v \in current_year..(current_year + RetirementYearSpan)
        /\ Run([Widgets EXCEPT !.target = v])

SetAccrual ==
    \E v \in Accruals :
        /\ v # annual_service_accrual
        /\ RLeq(Zero, v) /\ RLeq(v, ToRat(MaxAccrual))
        /\ Run([Widgets EXCEPT !.annual_service_accrual = v])

SetCap ==
    \E v \in Caps :
        /\ v # max_service_cap
        /\ RLeq(ToRat(MinCap), v) /\ RLeq(v, ToRat(MaxCap))
        /\ Run([Widgets EXCEPT !.max_service_cap = v])

SetValuationFactor ==
    \E v \in ValuationFactors :
        /\ v # valuation_factor
        /\ RLeq(ToRat(MinValuationFactor), v) /\ RLeq(v, ToRat(MaxValuationFactor))
        /\ Run([Widgets EXCEPT !.valuation_factor = v])

SetSftNow ==
    \E v \in Sfts :
        /\ v # sft_now
        /\ v \in MinSft..MaxSft
        /\ Run([Widgets EXCEPT !.sft_now = v])

SetSftGrowth ==
    \E v \in GrowthPcts :
        /\ v # sft_growth_pct
        /\ RLeq(Zero, v) /\ RLeq(v, ToRat(MaxGrowthPct))
        /\ Run([Widgets EXCEPT !.sft_growth_pct = v])

\* the multiselect appends the option picked to the selection
SelectAge ==
    \E a \in AgeOptions \ Range(ages) :
        /\ a \in MinRetirementAge..MaxRetirementAge
        /\ Run([Widgets EXCEPT !.ages = Append(ages, a)])

\* the multiselect removes the option cleared from the selection
DeselectAge ==
    \E i \in DOMAIN ages :
        Run([Widgets EXCEPT !.ages = SubSeq(ages, 1, i - 1) \o SubSeq(ages, i + 1, Len(ages))])

Next ==
    \/ SetCurrentAge
    \/ SetCurrentSalary
    \/ SetSalaryGrowth
    \/ SetCurrentService
    \/ SetTargetMode
    \/ SetRetirementAge
    \/ SetRetirementYear
    \/ SetAccrual
    \/ SetCap
    \/ SetValuationFactor
    \/ SetSftNow
    \/ SetSftGrowth
    \/ SelectAge
    \/ DeselectAge

Spec == Init /\ [][Next]_vars

-----------------------------------------------------------------------------
(* Properties *)

Raised(msg) == \E i \in DOMAIN issues : issues[i] = msg

\* service_now + accrual_per_year * years before the cap, for years y
Uncapped(y) == RAdd(current_service, RMul(annual_service_accrual, ToRat(y)))

\* C1 (as stated): project_service never lowers service below its starting
\* value: the result is at least current_service, also when current_service
\* exceeds the cap, and equals current_service when the accrual is 0, in the
\* summary and in every iteration of the sweep.
C1_NeverBelowStart ==
    /\ RLeq(current_service, service_at_retirement)
    /\ annual_service_accrual = Zero => service_at_retirement = current_service
    /\ \A i \in DOMAIN calc :
        /\ RLeq(current_service, calc[i].svc)
        /\ annual_service_accrual = Zero => calc[i].svc = current_service

\* the C1 property of one projected service value
CappedStart(svc) ==
    /\ RLeq(current_service, max_service_cap) =>
        /\ RLeq(current_service, svc)
        /\ annual_service_accrual = Zero => svc = current_service
    /\ RLess(max_service_cap, current_service) => svc = max_service_cap

\* C1 (amended): while current_service is at most the cap the projected
\* service is never below current_service and equals it when the accrual is
\* 0; when current_service exceeds the cap the projected service is the cap,
\* which is below current_service.
C1_NeverBelowCappedStart ==
    /\ CappedStart(service_at_retirement)
    /\ \A i \in DOMAIN calc : CappedStart(calc[i].svc)

C1_Witness ==
    /\ RLess(max_service_cap, current_service)
    /\ annual_service_accrual = Zero
    /\ service_at_retirement = max_service_cap
    /\ calc # <<>>

\* C2 (as stated): a sweep over an empty selection of ages completes without
\* an error, the table is empty and the export is produced.
C2_EmptySweepCompletes ==
    ages = <<>> => exc = "none" /\ df = <<>> /\ csv # NoCsv

\* the number of rows of the table with retirement age a
RowsOfAge(a) == Cardinality({i \in DOMAIN df : df[i]["Ret Age"] = a})

\* the number of occurrences of a in the selection
Occurrences(a) == Cardinality({i \in DOMAIN ages : ages[i] = a})

\* C3 (as stated): for every selection of ages the sweep produces a table
\* with exactly one row per selected age, in ascending order of retirement
\* age.
C3_OneRowPerAgeSorted ==
    /\ exc = "none"
    /\ Len(df) = Len(ages)
    /\ \A a \in AgeOptions : RowsOfAge(a) = Occurrences(a)
    /\ \A i \in DOMAIN df : \A j \in DOMAIN df :
        i < j => df[i]["Ret Age"] <= df[j]["Ret Age"]

\* C4: the valuation is annual_pension * valuation_factor + lump_sum, and
\* the summary and every sweep row are flagged over the threshold exactly
\* when the valuation is strictly greater than the threshold; a valuation
\* equal to the threshold is within it.
C4_StrictThreshold ==
    /\ sft_value = RAdd(RMul(annual_pension, valuation_factor), lump_sum)
    /\ status = MsgOver <=> RLess(sft_threshold_future, sft_value)
    /\ status = MsgWithin <=> RLeq(sft_value, sft_threshold_future)
    /\ \A i \in DOMAIN rows :
        /\ calc[i].sft_val = RAdd(RMul(calc[i].pen, valuation_factor), calc[i].ls)
        /\ rows[i]["Over SFT?"] = "Yes" <=> RLess(calc[i].sft_thr, calc[i].sft_val)
        /\ rows[i]["Over SFT?"] = "No" <=> RLeq(calc[i].sft_val, calc[i].sft_thr)

C4_Witness ==
    /\ sft_value = sft_threshold_future
    /\ status = MsgWithin
    /\ \E i \in DOMAIN rows :
        calc[i].sft_val = calc[i].sft_thr /\ rows[i]["Over SFT?"] = "No"

\* the difference d clamped at 0
Clamped(d) == IF d < 0 THEN 0 ELSE d

\* C5: the years fed into the projections are never negative, in both
\* target modes and for every age of the sweep; a negative difference is
\* clamped to 0.
C5_YearsNonNegative ==
    /\ years_to_retirement >= 0
    /\ target_mode = "Age" =>
        years_to_retirement = Clamped(retirement_age - current_age)
    /\ target_mode = "Year" =>
        years_to_retirement = Clamped(retirement_year - current_year)
    /\ \A i \in DOMAIN calc :
        /\ calc[i].yrs = Clamped(ages[i] - current_age)
        /\ rows[i]["Years to Ret"] >= 0

C5_Witness ==
    /\ target_mode = "Age"
    /\ retirement_age < current_age
    /\ years_to_retirement = 0
    /\ \E i \in DOMAIN calc : ages[i] < current_age /\ calc[i].yrs = 0

\* C6: when current_service + accrual * years exceeds the cap the projected
\* service is exactly the cap and the cap warning is raised; the warning is
\* raised exactly when the projected service is within 1e-9 of the cap; the
\* projected service never exceeds the cap in the summary or in a sweep row.
C6_CappedAtCap ==
    /\ RLess(max_service_cap, Uncapped(years_to_retirement)) =>
        service_at_retirement = max_service_cap /\ Raised(MsgHitCap)
    /\ Raised(MsgHitCap) <=>
        RLess(RAbs(RSub(service_at_retirement, max_service_cap)), Eps)
    /\ RLeq(service_at_retirement, max_service_cap)
    /\ \A i \in DOMAIN calc :
        /\ RLess(max_service_cap, Uncapped(calc[i].yrs)) => calc[i].svc = max_service_cap
        /\ RLeq(calc[i].svc, max_service_cap)
        /\ RLeq(rows[i]["Service (yrs)"], max_service_cap)

C6_Witness ==
    /\ RLeq(current_service, max_service_cap)
    /\ RLess(max_service_cap, Uncapped(years_to_retirement))
    /\ service_at_retirement = max_service_cap
    /\ Raised(MsgHitCap)
    /\ \E i \in DOMAIN calc :
        RLess(max_service_cap, Uncapped(calc[i].yrs)) /\ calc[i].svc = max_service_cap

\* C7: with the growth percentages of the form (>= 0) the projected salary
\* and the projected threshold do not decrease as the years grow and equal
\* the base at 0 years; from one row of the sorted table to the next the
\* final salary and the threshold do not decrease.
C7_GrowthMonotone ==
    /\ project_final_salary(current_salary, salary_growth_pct, 0) = ToRat(current_salary)
    /\ sft_at_year(sft_now, sft_growth_pct, 0) = ToRat(sft_now)
    /\ \A y1 \in 0..MaxYears : \A y2 \in 0..MaxYears :
        y1 < y2 =>
            /\ RLeq(project_final_salary(current_salary, salary_growth_pct, y1),
                    project_final_salary(current_salary, salary_growth_pct, y2))
            /\ RLeq(sft_at_year(sft_now, sft_growth_pct, y1),
                    sft_at_year(sft_now, sft_growth_pct, y2))
    /\ \A i \in DOMAIN calc :
        /\ calc[i].yrs < years_to_retirement =>
            RLeq(calc[i].fs, final_salary) /\ RLeq(calc[i].sft_thr, sft_threshold_future)
        /\ calc[i].yrs > years_to_retirement =>
            RLeq(final_salary, calc[i].fs) /\ RLeq(sft_threshold_future, calc[i].sft_thr)
    /\ \A i \in DOMAIN df : \A j \in DOMAIN df :
        i < j =>
            /\ RLeq(df[i]["Final Salary (€)"], df[j]["Final Salary (€)"])
            /\ RLeq(df[i]["SFT Threshold (€)"], df[j]["SFT Threshold (€)"])

C7_Witness ==
    /\ Len(df) = 2
    /\ df[1]["Years to Ret"] < df[2]["Years to Ret"]
    /\ RLess(df[1]["Final Salary (€)"], df[2]["Final Salary (€)"])
    /\ RLess(df[1]["SFT Threshold (€)"], df[2]["SFT Threshold (€)"])
    /\ df # rows

NonNegative(x) == RLeq(Zero, x)

\* C8: with the non-negative inputs of the form, final salary, annual
\* pension, lump sum, valuation and threshold are non-negative in the summary
\* and in every sweep row, and the pension and the lump sum are both 0 when
\* the final salary or the service is 0.
C8_NonNegativeMoney ==
    /\ NonNegative(final_salary) /\ NonNegative(annual_pension)
    /\ NonNegative(lump_sum) /\ NonNegative(sft_value)
    /\ NonNegative(sft_threshold_future)
    /\ (final_salary = Zero \/ service_at_retirement = Zero) =>
        annual_pension = Zero /\ lump_sum = Zero
    /\ classic_db_pension(Zero, service_at_retirement) = <<Zero, Zero>>
    /\ classic_db_pension(final_salary, Zero) = <<Zero, Zero>>
    /\ \A i \in DOMAIN calc :
        /\ NonNegative(calc[i].fs) /\ NonNegative(calc[i].pen)
        /\ NonNegative(calc[i].ls) /\ NonNegative(calc[i].sft_val)
        /\ NonNegative(calc[i].sft_thr)
        /\ NonNegative(rows[i]["Final Salary (€)"])
        /\ NonNegative(rows[i]["Annual Pension (€)"])
        /\ NonNegative(rows[i]["Lump Sum (€)"])
        /\ NonNegative(rows[i]["SFT Value (€)"])
        /\ NonNegative(rows[i]["SFT Threshold (€)"])
        /\ (calc[i].fs = Zero \/ calc[i].svc = Zero) =>
            calc[i].pen = Zero /\ calc[i].ls = Zero

C8_Witness ==
    /\ service_at_retirement = Zero
    /\ RLess(Zero, final_salary)
    /\ annual_pension = Zero /\ lump_sum = Zero
    /\ \E i \in DOMAIN calc : RLess(Zero, calc[i].pen) /\ RLess(Zero, calc[i].ls)

\* C9: a sweep row whose years equal the summary's years to retirement has
\* the same unrounded final salary, service, annual pension, lump sum,
\* valuation and threshold, the same over-threshold flag and the same
\* retirement year as the summary.
C9_SweepMatchesSummary ==
    \A i \in DOMAIN calc :
        calc[i].yrs = years_to_retirement =>
            /\ calc[i].fs = final_salary
            /\ calc[i].svc = service_at_retirement
            /\ calc[i].pen = annual_pension
            /\ calc[i].ls = lump_sum
            /\ calc[i].sft_val = sft_value
            /\ calc[i].sft_thr = sft_threshold_future
            /\ calc[i].over <=> status = MsgOver
            /\ rows[i]["Over SFT?"] = "Yes" <=> status = MsgOver
            /\ calc[i].ry = retirement_year
            /\ rows[i]["Ret Year"] = retirement_year

C9_Witness ==
    /\ target_mode = "Age"
    /\ years_to_retirement > 0
    /\ salary_growth_pct # sft_growth_pct
    /\ current_salary > 0
    /\ \E i \in DOMAIN calc :
        ages[i] = retirement_age /\ calc[i].yrs = years_to_retirement

\* C10: the warning that the retirement age is less than the current age is
\* raised only in target mode Age with a desired retirement age below the
\* current age; then years to retirement is 0, the retirement year is the
\* current year and the "this year" warning is raised too.  In target mode
\* Year the retirement age is current_age + years_to_retirement and the
\* warning is never raised.
C10_AgeLessWarning ==
    /\ Raised(MsgAgeLess) => target_mode = "Age" /\ retirement_age < current_age
    /\ (target_mode = "Age" /\ retirement_age < current_age) =>
        /\ Raised(MsgAgeLess)
        /\ years_to_retirement = 0
        /\ retirement_year = current_year
        /\ Raised(MsgThisYear)
    /\ target_mode = "Year" =>
        /\ ~Raised(MsgAgeLess)
        /\ retirement_age = current_age + years_to_retirement
        /\ retirement_age >= current_age

C10_Witness ==
    /\ Raised(MsgAgeLess)
    /\ Raised(MsgThisYear)
    /\ retirement_year = current_year

====
